---------------------------- MODULE Spec2Model ----------------------------
(***************************************************************************)
(* A model of aloha/robot_utils.py: the trajectory playback of move_arms   *)
(* and move_grippers, the ImageRecorder and Recorder sample buffers with   *)
(* their rate diagnostics, and the base-action filters.                    *)
(*                                                                         *)
(* Numbers.  Positions and velocities are integers; the interpolated       *)
(* waypoints and the averages are exact rationals [n, d] in lowest terms.  *)
(* Durations of a playback are counted in units of 0.01 s, timestamps in   *)
(* nanoseconds.  Python lists are sequences, so the code's index k is the  *)
(* model's index k + 1.  A value that may be None is held as a sequence:   *)
(* None is <<>> and a value v is <<v>>.                                    *)
(***************************************************************************)
EXTENDS Integers, Sequences, FiniteSets, TLC

None == <<>>
Val(v) == <<v>>

(***************************************************************************)
(* Bounds of the model.                                                    *)
(***************************************************************************)
MaxBots == 2          \* bot_list and target_pose_list hold 0..MaxBots items
MaxMoveTime == 7      \* move_time ranges over 0..MaxMoveTime (units of 0.01 s)

(***************************************************************************)
(* aloha.constants.DT, the control timestep: 0.02 s, in units of 0.01 s.   *)
(***************************************************************************)
DT == 2

ArmDof == 6           \* get_arm_joint_positions: position[:6]
GripperIndex == 6     \* get_arm_gripper_positions: position[6]

(***************************************************************************)
(* Exact rationals.                                                        *)
(***************************************************************************)
Abs(x) == IF x < 0 THEN -x ELSE x

RECURSIVE Gcd(_, _)
Gcd(a, b) == IF b = 0 THEN a ELSE Gcd(b, a % b)

Rat(n, d) ==
    LET g == Gcd(Abs(n), Abs(d))
        s == IF d < 0 THEN -1 ELSE 1
    IN  [n |-> (s * n) \div g, d |-> (s * d) \div g]

IntRat(x) == [n |-> x, d |-> 1]

(***************************************************************************)
(* int(move_time / DT): Python's int() truncates; move_time >= 0 here.     *)
(***************************************************************************)
\* A faulty variant of NumSteps: a playback has at least one step.
NumStepsAtLeastOne(mt) == IF mt \div DT < 1 THEN 1 ELSE mt \div DT

NumSteps(mt) == mt \div DT

\* A faulty variant of Linspace: endpoint=False, num samples short of stop.
LinspaceNoEndpoint(start, stop, num) ==
    [k \in 1..num |-> Rat(start * num + (k - 1) * (stop - start), num)]

(***************************************************************************)
(* np.linspace(start, stop, num) on scalars, endpoint=True: num samples    *)
(* start + k * (stop - start) / (num - 1); for num > 1 the last sample is  *)
(* then overwritten with stop; for num = 1 the only sample is start; for   *)
(* num = 0 the result is empty.                                            *)
(***************************************************************************)
Linspace(start, stop, num) ==
    [k \in 1..num |->
        IF num > 1 /\ k = num THEN IntRat(stop)
        ELSE IF num = 1 THEN IntRat(start)
        ELSE Rat(start * (num - 1) + (k - 1) * (stop - start), num - 1)]

\* np.linspace on two vectors of equal length: one row per sample.
LinspaceVec(start, stop, num) ==
    [k \in 1..num |-> [j \in 1..Len(start) |-> Linspace(start[j], stop[j], num)[k]]]

(***************************************************************************)
(* The inputs of a playback.  A bot is known by its                        *)
(* joint_states.position, seven numbers: six arm joints and the gripper.   *)
(***************************************************************************)
PosVals == {0, 2}
TargetVals == {1, 3}

JointStates == {<<a, a + 1, a, a + 1, a, a + 1, 2 - a>> : a \in PosVals}
ArmTargets == {<<c, c, c + 1, c, c, c + 1>> : c \in TargetVals}
GripperTargets == TargetVals
MoveTimes == 0..MaxMoveTime

SeqsUpTo(S, n) == UNION {[1..k -> S] : k \in 0..n}

get_arm_joint_positions(bot) == SubSeq(bot, 1, ArmDof)
get_arm_gripper_positions(bot) == bot[GripperIndex + 1]

\* zip(xs, ys) stops at the shorter list.
Min(a, b) == IF a < b THEN a ELSE b
ZipLen(xs, ys) == Min(Len(xs), Len(ys))

VARIABLES
    pc,               \* position of the playback call
    fn,               \* "move_arms" or "move_grippers"
    move_time,        \* the call's move_time argument, in units of 0.01 s
    bot_list,         \* joint_states.position of each bot passed in
    target_pose_list,
    num_steps,
    traj_list,
    t,                \* the outer loop's step index
    bot_id,           \* the inner loop's index
    gripper_command,  \* the one JointSingleCommand move_grippers re-sends
    dispatched,       \* the commands the actuators have received, in order
    slept,            \* number of time.sleep(DT) calls made
    error,            \* the exception the call raised, or "none"
    failed            \* the dispatches the driver refused: a set of (bot, t)

moveVars == <<pc, fn, move_time, bot_list, target_pose_list, num_steps, traj_list, t, bot_id,
              gripper_command, dispatched, slept, error, failed>>

MoveInit ==
    /\ pc = "idle"
    /\ fn = "none"
    /\ move_time = 0
    /\ bot_list = <<>>
    /\ target_pose_list = <<>>
    /\ num_steps = 0
    /\ traj_list = <<>>
    /\ t = 0
    /\ bot_id = 0
    /\ gripper_command = None
    /\ dispatched = <<>>
    /\ slept = 0
    /\ error = "none"
    /\ failed = {}

\* move_arms and move_grippers keep no state between calls: one call is followed.
CallReady == pc = "idle"

\* Lines 187-192 and 205-210: the step count and one trajectory per zipped pair.
BuildTrajectories(curr_pose_list, targets, steps, vec) ==
    [i \in 1..ZipLen(curr_pose_list, targets) |->
        IF vec THEN LinspaceVec(curr_pose_list[i], targets[i], steps)
        ELSE Linspace(curr_pose_list[i], targets[i], steps)]

move_arms(bots, targets, duration) ==
    /\ CallReady
    /\ fn' = "move_arms"
    /\ move_time' = duration
    /\ bot_list' = bots
    /\ target_pose_list' = targets
    /\ num_steps' = NumSteps(duration)
    /\ traj_list' = BuildTrajectories([i \in 1..Len(bots) |-> get_arm_joint_positions(bots[i])],
                                      targets, NumSteps(duration), TRUE)
    /\ t' = 0
    /\ bot_id' = 0
    /\ gripper_command' = None
    /\ dispatched' = <<>>
    /\ slept' = 0
    /\ error' = "none"
    /\ failed' = {}
    /\ pc' = "step"

move_grippers(bots, targets, duration) ==
    /\ CallReady
    /\ fn' = "move_grippers"
    /\ move_time' = duration
    /\ bot_list' = bots
    /\ target_pose_list' = targets
    /\ num_steps' = NumSteps(duration)
    /\ traj_list' = BuildTrajectories([i \in 1..Len(bots) |-> get_arm_gripper_positions(bots[i])],
                                      targets, NumSteps(duration), FALSE)
    /\ t' = 0
    /\ bot_id' = 0
    /\ gripper_command' = [name |-> "gripper", cmd |-> IntRat(0)]
    /\ dispatched' = <<>>
    /\ slept' = 0
    /\ error' = "none"
    /\ failed' = {}
    /\ pc' = "step"

CallMoveArms ==
    \E bots \in SeqsUpTo(JointStates, MaxBots), targets \in SeqsUpTo(ArmTargets, MaxBots),
       duration \in MoveTimes : move_arms(bots, targets, duration)

CallMoveGrippers ==
    \E bots \in SeqsUpTo(JointStates, MaxBots), targets \in SeqsUpTo(GripperTargets, MaxBots),
       duration \in MoveTimes : move_grippers(bots, targets, duration)

\* The inner loop is about to serve bot_list[bot_id] at step t.
AtBot == pc = "step" /\ t < num_steps /\ bot_id < Len(bot_list)

\* A faulty variant of Waypoint: every bot is sent the first bot's trajectory.
WaypointFirstBot(b, s) == traj_list[1][s + 1]

\* traj_list[bot_id][t]
Waypoint(b, s) == traj_list[b + 1][s + 1]

\* traj_list[bot_id] where zip left no trajectory for that bot.
TrajIndexError ==
    /\ AtBot
    /\ bot_id >= Len(traj_list)
    /\ pc' = "raised"
    /\ error' = "IndexError"
    /\ UNCHANGED <<fn, move_time, bot_list, target_pose_list, num_steps, traj_list, t, bot_id,
                   gripper_command, dispatched, slept, failed>>

\* set_joint_positions(..., blocking=False) or pub_single.publish(...) returns.
Dispatch ==
    /\ AtBot
    /\ bot_id < Len(traj_list)
    /\ gripper_command' = IF fn = "move_grippers"
                          THEN [gripper_command EXCEPT !.cmd = Waypoint(bot_id, t)]
                          ELSE gripper_command
    /\ dispatched' = Append(dispatched, [bot |-> bot_id, t |-> t, cmd |-> Waypoint(bot_id, t)])
    /\ bot_id' = bot_id + 1
    /\ UNCHANGED <<pc, fn, move_time, bot_list, target_pose_list, num_steps, traj_list, t, slept,
                   error, failed>>

\* A faulty variant of DispatchErrorPropagates: the exception is caught and the
\* loop goes on with the next bot.
DispatchErrorSwallowed ==
    /\ bot_id' = bot_id + 1
    /\ UNCHANGED <<pc, error>>

\* The loops hold no try/except: an exception of the dispatch leaves the call.
DispatchErrorPropagates ==
    /\ pc' = "raised"
    /\ error' = "DispatchFailure"
    /\ UNCHANGED bot_id

\* set_joint_positions or publish raises.
DispatchFails ==
    /\ AtBot
    /\ bot_id < Len(traj_list)
    /\ failed' = failed \cup {[bot |-> bot_id, t |-> t]}
    /\ gripper_command' = IF fn = "move_grippers"
                          THEN [gripper_command EXCEPT !.cmd = Waypoint(bot_id, t)]
                          ELSE gripper_command
    /\ DispatchErrorPropagates
    /\ UNCHANGED <<fn, move_time, bot_list, target_pose_list, num_steps, traj_list, t, dispatched, slept>>

\* The inner loop is over: time.sleep(DT), then the next step.
Sleep ==
    /\ pc = "step"
    /\ t < num_steps
    /\ bot_id = Len(bot_list)
    /\ slept' = slept + 1
    /\ t' = t + 1
    /\ bot_id' = 0
    /\ UNCHANGED <<pc, fn, move_time, bot_list, target_pose_list, num_steps, traj_list,
                   gripper_command, dispatched, error, failed>>

\* range(num_steps) is exhausted: the function returns None.
Return ==
    /\ pc = "step"
    /\ t >= num_steps
    /\ pc' = "returned"
    /\ UNCHANGED <<fn, move_time, bot_list, target_pose_list, num_steps, traj_list, t, bot_id,
                   gripper_command, dispatched, slept, error, failed>>


(***************************************************************************)
(* The recorders.  One object is followed: an ImageRecorder or a Recorder. *)
(* Its attributes are a function from attribute names to values: the       *)
(* attribute f'{cam_name}_image' is named <<cam_name, "image">>, the       *)
(* attribute qpos is named <<"qpos">>.  An attribute that was never set    *)
(* is not in the function's domain.  The deques of timestamps are kept in  *)
(* a second function, so that an empty deque is not taken for None.        *)
(***************************************************************************)
MaxUpdates == 52      \* a stream delivers at most MaxUpdates messages
MaxBackground == 2    \* at most one stream is followed beyond MaxBackground messages

HistoryLen == 50      \* deque(maxlen=50)
NsPerSec == 1000000000
PeriodNs == NsPerSec \div 50    \* the messages of a stream are 0.02 s apart

VARIABLES
    obj,              \* "ImageRecorder", "Recorder", or "none"
    is_debug,
    camera_names,
    attrs,            \* the object's attributes that may hold None
    timestamps,       \* the object's deques of timestamps
    received,         \* per stream, the messages its handler has been given
    ret               \* what the latest call of a reading method gave

recVars == <<obj, is_debug, camera_names, attrs, timestamps, received, ret>>

Range(f) == {f[x] : x \in DOMAIN f}

NoCall == [call |-> "none"]

RecIdle ==
    /\ obj = "none"
    /\ is_debug = FALSE
    /\ camera_names = <<>>
    /\ attrs = <<>>
    /\ timestamps = <<>>
    /\ received = <<>>
    /\ ret = NoCall

\* A faulty variant of setattr: the attribute is shared by all cameras, as if it
\* were named 'image' and not f'{cam_name}_image'.
setattrShared(o, name, value) ==
    [a \in DOMAIN o \cup {name} |-> IF a[Len(a)] = name[Len(name)] THEN value ELSE o[a]]

setattr(o, name, value) ==
    [a \in DOMAIN o \cup {name} |-> IF a = name THEN value ELSE o[a]]

hasattr(o, name) == name \in DOMAIN o

\* A faulty variant of DequeAppend: nothing is ever dropped.
DequeAppendUnbounded(q, x) == Append(q, x)

\* deque(maxlen=HistoryLen).append(x): a full deque drops its oldest item.
DequeAppend(q, x) ==
    IF Len(q) = HistoryLen THEN Append(Tail(q), x) ELSE Append(q, x)

\* ImageRecorder.__init__
MobileCameras == <<"cam_high", "cam_left_wrist", "cam_right_wrist">>
StationaryCameras == <<"cam_high", "cam_low", "cam_left_wrist", "cam_right_wrist">>

ImageRecorderInit(is_mobile, debug) ==
    LET names == IF is_mobile THEN MobileCameras ELSE StationaryCameras
    IN  /\ obj = "ImageRecorder"
        /\ is_debug = debug
        /\ camera_names = names
        /\ attrs = [a \in Range(names) \X {"image", "secs", "nsecs"} |-> None]
        /\ timestamps = [a \in (IF debug THEN Range(names) \X {"timestamps"} ELSE {}) |-> <<>>]
        /\ received = [s \in Range(names) |-> <<>>]
        /\ ret = NoCall

\* Recorder.__init__
RecorderStreams == {"joint_states", "joint_group", "joint_single"}

RecorderInit(debug) ==
    /\ obj = "Recorder"
    /\ is_debug = debug
    /\ camera_names = <<>>
    /\ attrs = [a \in {<<"secs">>, <<"nsecs">>, <<"qpos">>, <<"effort">>,
                       <<"arm_command">>, <<"gripper_command">>} |-> None]
    /\ timestamps = [a \in (IF debug THEN {<<"joint_timestamps">>, <<"arm_command_timestamps">>,
                                          <<"gripper_command_timestamps">>} ELSE {}) |-> <<>>]
    /\ received = [s \in RecorderStreams |-> <<>>]
    /\ ret = NoCall

(***************************************************************************)
(* The messages.  The k-th message of a stream (k from 1) is stamped, and  *)
(* handled, k periods after the start; its payload names the stream and k. *)
(***************************************************************************)
ImageMsg(cam, k) ==
    [secs |-> (k * PeriodNs) \div NsPerSec, nsecs |-> (k * PeriodNs) % NsPerSec,
     data |-> <<cam, k>>]

JointStateMsg(k) ==
    [position |-> <<"position", k>>, velocity |-> <<"velocity", k>>,
     effort |-> <<"effort", k>>, time |-> k * PeriodNs]

JointGroupMsg(k) == [cmd |-> <<"arm", k>>, time |-> k * PeriodNs]

JointSingleMsg(k) == [name |-> "gripper", cmd |-> k, time |-> k * PeriodNs]

\* The bound on the messages followed.
CanReceive(s) ==
    /\ s \in DOMAIN received
    /\ Len(received[s]) < MaxUpdates
    /\ \/ Len(received[s]) < MaxBackground
       \/ \A o \in DOMAIN received \ {s} : Len(received[o]) <= MaxBackground

\* CvBridge.imgmsg_to_cv2(data, desired_encoding='passthrough')
imgmsg_to_cv2(data) == [encoding |-> "passthrough", mat |-> data.data]

\* Line 69: data.header.stamp.secs + data.header.stamp.secs * 1e-9, in nanoseconds.
ImageTimestamp(data) == data.secs * NsPerSec + data.secs

image_cb(cam_name, data) ==
    /\ attrs' = setattr(setattr(setattr(attrs,
                    <<cam_name, "image">>, Val(imgmsg_to_cv2(data))),
                    <<cam_name, "secs">>, Val(data.secs)),
                    <<cam_name, "nsecs">>, Val(data.nsecs))
    /\ timestamps' = IF is_debug
                     THEN [timestamps EXCEPT ![<<cam_name, "timestamps">>] =
                              DequeAppend(@, ImageTimestamp(data))]
                     ELSE timestamps
    /\ received' = [received EXCEPT ![cam_name] = Append(@, data)]
    /\ ret' = NoCall
    /\ UNCHANGED <<obj, is_debug, camera_names>>

\* The subscriber of a camera's topic hands its handler the next message.
Deliver(cam) ==
    /\ obj = "ImageRecorder"
    /\ CanReceive(cam)
    /\ image_cb(cam, ImageMsg(cam, Len(received[cam]) + 1))

image_cb_cam_high == Deliver("cam_high")
image_cb_cam_low == Deliver("cam_low")
image_cb_cam_left_wrist == Deliver("cam_left_wrist")
image_cb_cam_right_wrist == Deliver("cam_right_wrist")

\* A faulty variant of ImageDictValues: every entry is the first camera's image.
ImageDictOfFirst == [i \in DOMAIN camera_names |-> attrs[<<camera_names[1], "image">>]]

\* ImageRecorder.get_images: getattr(self, f'{cam_name}_image') per camera.
ImageDictValues == [i \in DOMAIN camera_names |-> attrs[<<camera_names[i], "image">>]]

\* The dict as a function from the camera names.
ImageDict ==
    [cam \in Range(camera_names) |->
        ImageDictValues[CHOOSE i \in DOMAIN camera_names : camera_names[i] = cam]]

get_images ==
    /\ obj = "ImageRecorder"
    /\ ret' = [call |-> "get_images", raised |-> "none", value |-> ImageDict]
    /\ UNCHANGED <<obj, is_debug, camera_names, attrs, timestamps, received>>

(***************************************************************************)
(* dt_helper and the frequency.  A float is a rational [n, d]; NaN is      *)
(* [n |-> 0, d |-> 0] and inf is [n |-> 1, d |-> 0].                       *)
(***************************************************************************)
NaN == [n |-> 0, d |-> 0]
Inf == [n |-> 1, d |-> 0]

RECURSIVE Sum(_)
Sum(xs) == IF xs = <<>> THEN 0 ELSE xs[1] + Sum(Tail(xs))

\* ts[1:] - ts[:-1]
Diff(ts) == [i \in 1..(Len(ts) - 1) |-> ts[i + 1] - ts[i]]

\* A faulty variant of Mean: the sum is divided by the number of timestamps.
MeanOverCount(xs) == IF Len(xs) = 0 THEN NaN ELSE Rat(Sum(xs), Len(xs) + 1)

\* np.mean: the mean of an empty array is nan (with a RuntimeWarning, no exception).
Mean(xs) == IF Len(xs) = 0 THEN NaN ELSE Rat(Sum(xs), Len(xs))

dt_helper(ts) == Mean(Diff(ts))

\* 1 / x for a numpy float64 x: 1 / nan is nan, 1 / 0.0 is inf (a RuntimeWarning).
Reciprocal(x) ==
    IF x = NaN THEN NaN
    ELSE IF x.n = 0 THEN Inf
    ELSE Rat(x.d, x.n)

Freq(ts) == Reciprocal(dt_helper(ts))

\* ImageRecorder.print_diagnostics: one line per camera, then an empty line.
ImagePrintDiagnostics ==
    /\ obj = "ImageRecorder"
    /\ ret' = IF hasattr(timestamps, <<camera_names[1], "timestamps">>)
              THEN [call |-> "print_diagnostics", raised |-> "none",
                    printed |-> [i \in DOMAIN camera_names |->
                        [name |-> camera_names[i],
                         freq |-> Freq(timestamps[<<camera_names[i], "timestamps">>])]]]
              ELSE [call |-> "print_diagnostics", raised |-> "AttributeError",
                    printed |-> <<>>]
    /\ UNCHANGED <<obj, is_debug, camera_names, attrs, timestamps, received>>

\* The handler of stream s has handled msg; its return value is None.
Handled(s, msg) ==
    /\ received' = [received EXCEPT ![s] = Append(@, msg)]
    /\ ret' = NoCall
    /\ UNCHANGED <<obj, is_debug, camera_names>>

\* self.<name>.append(time.time()) when is_debug; msg.time is what time.time()
\* gives in the handler.
RecordTime(name, now) ==
    timestamps' = IF is_debug THEN [timestamps EXCEPT ![<<name>>] = DequeAppend(@, now)]
                  ELSE timestamps

follower_state_cb ==
    /\ obj = "Recorder"
    /\ CanReceive("joint_states")
    /\ LET data == JointStateMsg(Len(received["joint_states"]) + 1)
       IN  /\ attrs' = setattr(setattr(setattr(setattr(attrs,
                           <<"qpos">>, Val(data.position)),
                           <<"qvel">>, Val(data.velocity)),
                           <<"effort">>, Val(data.effort)),
                           <<"data">>, Val(data))
           /\ RecordTime("joint_timestamps", data.time)
           /\ Handled("joint_states", data)

follower_arm_commands_cb ==
    /\ obj = "Recorder"
    /\ CanReceive("joint_group")
    /\ LET data == JointGroupMsg(Len(received["joint_group"]) + 1)
       IN  /\ attrs' = setattr(attrs, <<"arm_command">>, Val(data.cmd))
           /\ RecordTime("arm_command_timestamps", data.time)
           /\ Handled("joint_group", data)

follower_gripper_commands_cb ==
    /\ obj = "Recorder"
    /\ CanReceive("joint_single")
    /\ LET data == JointSingleMsg(Len(received["joint_single"]) + 1)
       IN  /\ attrs' = setattr(attrs, <<"gripper_command">>, Val(data.cmd))
           /\ RecordTime("gripper_command_timestamps", data.time)
           /\ Handled("joint_single", data)

\* Recorder.print_diagnostics: the three frequencies, then one print.
RecorderDeques == <<"joint_timestamps", "arm_command_timestamps", "gripper_command_timestamps">>

RecorderPrintDiagnostics ==
    /\ obj = "Recorder"
    /\ ret' = IF hasattr(timestamps, <<RecorderDeques[1]>>)
              THEN [call |-> "print_diagnostics", raised |-> "none",
                    printed |-> [i \in DOMAIN RecorderDeques |->
                        [name |-> RecorderDeques[i],
                         freq |-> Freq(timestamps[<<RecorderDeques[i]>>])]]]
              ELSE [call |-> "print_diagnostics", raised |-> "AttributeError",
                    printed |-> <<>>]
    /\ UNCHANGED <<obj, is_debug, camera_names, attrs, timestamps, received>>

\* getattr(o, name): the attribute's value, or AttributeError when it was never set.
getattr(o, name) ==
    IF hasattr(o, name) THEN [raised |-> "none", value |-> o[name]]
    ELSE [raised |-> "AttributeError", value |-> None]

\* The attributes a Recorder offers to its readers.
RecorderFields ==
    {<<"qpos">>, <<"qvel">>, <<"effort">>, <<"data">>, <<"arm_command">>, <<"gripper_command">>}

\* A consumer reads recorder.<name>.
ReadRecorderField ==
    /\ obj = "Recorder"
    /\ \E name \in RecorderFields :
          ret' = [call |-> "getattr", name |-> name,
                  raised |-> getattr(attrs, name).raised,
                  value |-> getattr(attrs, name).value]
    /\ UNCHANGED <<obj, is_debug, camera_names, attrs, timestamps, received>>

RecInit ==
    \E debug \in BOOLEAN :
        \/ \E is_mobile \in BOOLEAN : ImageRecorderInit(is_mobile, debug)
        \/ RecorderInit(debug)


(***************************************************************************)
(* dt_helper on its own: any sequence of timestamps.                       *)
(***************************************************************************)
MaxTsLen == 4         \* the sequences hold 0..MaxTsLen timestamps
MaxTsVal == 4         \* each timestamp is in 0..MaxTsVal

VARIABLES
    rate_ts,          \* the timestamps handed to dt_helper
    rate_out          \* <<>>, or the one result [mean, freq]

rateVars == <<rate_ts, rate_out>>

RateIdle == rate_ts = <<>> /\ rate_out = <<>>

RateInit == rate_ts \in SeqsUpTo(0..MaxTsVal, MaxTsLen) /\ rate_out = <<>>

\* image_freq = 1 / dt_helper(...): lines 99 and 166-168.
EstimateRate ==
    /\ rate_out = <<>>
    /\ rate_out' = <<[mean |-> dt_helper(rate_ts), freq |-> Reciprocal(dt_helper(rate_ts))]>>
    /\ UNCHANGED rate_ts

(***************************************************************************)
(* smooth_base_action.  np.convolve(a, v, mode='same'): the two arrays are *)
(* swapped when v is the longer one; an empty array raises ValueError; the *)
(* result has the length of the longer array and is the middle of the full *)
(* convolution, starting at its index n - 1 - n \div 2 for n the length of *)
(* the shorter array.  The kernel np.ones(5)/5 is kept as five ones and    *)
(* the division by 5 is done on the sums.                                  *)
(***************************************************************************)
MaxRows == 6          \* base_action holds 0..MaxRows rows

KernelWidth == 5
ActionVals == {0, 1}
NumComponents == 2    \* base_action.shape[1]: (linear_vel, angular_vel)

VARIABLES
    base_action,      \* the array handed to smooth_base_action: a sequence of rows
    smoothed,         \* the array returned
    smooth_pc         \* "idle", "ready", "returned" or "ValueError"

smoothVars == <<base_action, smoothed, smooth_pc>>

SmoothIdle == base_action = <<>> /\ smoothed = <<>> /\ smooth_pc = "idle"

SmoothInit ==
    /\ base_action \in SeqsUpTo([1..NumComponents -> ActionVals], MaxRows)
    /\ smoothed = <<>>
    /\ smooth_pc = "ready"

Ones(n) == [i \in 1..n |-> 1]

\* Entry k (from 0) of the full convolution of x and y.
FullConvolveAt(x, y, k) ==
    Sum([i \in 1..Len(x) |->
            IF k - (i - 1) >= 0 /\ k - (i - 1) < Len(y) THEN x[i] * y[k - (i - 1) + 1] ELSE 0])

ConvolveSame(a, v) ==
    LET x == IF Len(v) > Len(a) THEN v ELSE a
        y == IF Len(v) > Len(a) THEN a ELSE v
        n == Len(y)
    IN  [k \in 1..Len(x) |-> FullConvolveAt(x, y, (k - 1) + (n - 1 - (n \div 2)))]

Column(array, c) == [r \in 1..Len(array) |-> array[r][c]]

\* np.stack(columns, axis=-1) of the convolved columns.
SmoothedArray(array) ==
    LET cols == [c \in 1..NumComponents |-> ConvolveSame(Column(array, c), Ones(KernelWidth))]
    IN  [r \in 1..Len(cols[1]) |-> [c \in 1..NumComponents |-> Rat(cols[c][r], KernelWidth)]]

smooth_base_action ==
    /\ smooth_pc = "ready"
    /\ IF Len(base_action) = 0
       THEN smooth_pc' = "ValueError" /\ smoothed' = <<>>
       ELSE smooth_pc' = "returned" /\ smoothed' = SmoothedArray(base_action)
    /\ UNCHANGED base_action

(***************************************************************************)
(* calibrate_linear_vel.  Arrays live in a heap, a sequence indexed by     *)
(* object id, so that the function's result and its argument can be told   *)
(* apart; the argument is a vector (linear_vel, angular_vel).              *)
(***************************************************************************)
MaxVel == 2           \* the velocities are in -MaxVel..MaxVel
MaxCoupling == 2      \* c is None or in 0..MaxCoupling

VARIABLES
    heap,             \* the numpy arrays, by object id
    cal_arg,          \* the id of the caller's base_action
    cal_given,        \* the caller's base_action as it was before the call
    cal_c,            \* the argument c: None or Val(number)
    cal_ret           \* the id of the array returned, or 0 before the call

calibVars == <<heap, cal_arg, cal_given, cal_c, cal_ret>>

CalibIdle == heap = <<>> /\ cal_arg = 0 /\ cal_given = <<>> /\ cal_c = None /\ cal_ret = 0

CalibInit ==
    \E v \in -MaxVel..MaxVel, w \in -MaxVel..MaxVel :
        /\ heap = << <<v, w>> >>
        /\ cal_arg = 1
        /\ cal_given = <<v, w>>
        /\ cal_c = None
        /\ cal_ret = 0

\* A faulty variant of ArrayCopy: the caller's array itself is written to.
NoCopy(h, ref) == [heap |-> h, ref |-> ref]

\* base_action.copy(): a new array; the name base_action is bound to it.
ArrayCopy(h, ref) == [heap |-> Append(h, h[ref]), ref |-> Len(h) + 1]

calibrate_linear_vel(ref, c) ==
    LET c0 == IF c = None THEN 0 ELSE c[1]
        v == heap[ref][1]
        w == heap[ref][2]
        copied == ArrayCopy(heap, ref)
    IN  /\ heap' = [copied.heap EXCEPT ![copied.ref][1] = v - c0 * w]
        /\ cal_ret' = copied.ref

CallCalibrate ==
    /\ cal_ret = 0
    /\ \E c \in {None} \cup {Val(k) : k \in 0..MaxCoupling} :
          /\ cal_c' = c
          /\ calibrate_linear_vel(cal_arg, c)
    /\ UNCHANGED <<cal_arg, cal_given>>

(***************************************************************************)
(* A handler and a reader in different threads.  rospy runs a subscriber's *)
(* callback in that subscriber's own thread; a reader runs in the caller's *)
(* thread.  Neither class holds a lock, so the statements of a handler and *)
(* the attribute reads of a reader interleave.  One stream is followed:    *)
(* the first camera of an ImageRecorder, the joint states of a Recorder.   *)
(* A subscriber delivers its messages one after another, so the handler    *)
(* of a stream starts on a message only when it is through with the last.  *)
(***************************************************************************)
MaxRaced == 3         \* the followed stream delivers at most MaxRaced messages

VARIABLES
    cb_pc,            \* the statement the handler is to execute next, or "idle"
    snapshot          \* the fields the reader has read so far, with what it got

concVars == <<cb_pc, snapshot>>

ConcIdle == cb_pc = "idle" /\ snapshot = <<>>

RacedStream == IF obj = "ImageRecorder" THEN camera_names[1] ELSE "joint_states"

\* The attributes of the followed stream that a reader reads together.
RacedFields ==
    IF obj = "ImageRecorder"
    THEN {<<RacedStream, "image">>, <<RacedStream, "secs">>, <<RacedStream, "nsecs">>}
    ELSE {<<"qpos">>, <<"qvel">>, <<"effort">>}

\* The message the handler is working on.
CurrentMsg == received[RacedStream][Len(received[RacedStream])]

\* image_cb is called with the next message and executes lines 62-64.
ImageCbSetImage ==
    /\ obj = "ImageRecorder"
    /\ cb_pc = "idle"
    /\ Len(received[RacedStream]) < MaxRaced
    /\ LET data == ImageMsg(RacedStream, Len(received[RacedStream]) + 1)
       IN  /\ received' = [received EXCEPT ![RacedStream] = Append(@, data)]
           /\ attrs' = setattr(attrs, <<RacedStream, "image">>, Val(imgmsg_to_cv2(data)))
    /\ cb_pc' = "secs"
    /\ UNCHANGED <<obj, is_debug, camera_names, timestamps, ret, snapshot>>

\* Line 65.
ImageCbSetSecs ==
    /\ obj = "ImageRecorder"
    /\ cb_pc = "secs"
    /\ attrs' = setattr(attrs, <<RacedStream, "secs">>, Val(CurrentMsg.secs))
    /\ cb_pc' = "nsecs"
    /\ UNCHANGED <<obj, is_debug, camera_names, timestamps, received, ret, snapshot>>

\* Line 66.
ImageCbSetNsecs ==
    /\ obj = "ImageRecorder"
    /\ cb_pc = "nsecs"
    /\ attrs' = setattr(attrs, <<RacedStream, "nsecs">>, Val(CurrentMsg.nsecs))
    /\ cb_pc' = "timestamps"
    /\ UNCHANGED <<obj, is_debug, camera_names, timestamps, received, ret, snapshot>>

\* Lines 67-69, and the return.
ImageCbRecord ==
    /\ obj = "ImageRecorder"
    /\ cb_pc = "timestamps"
    /\ timestamps' = IF is_debug
                     THEN [timestamps EXCEPT ![<<RacedStream, "timestamps">>] =
                              DequeAppend(@, ImageTimestamp(CurrentMsg))]
                     ELSE timestamps
    /\ cb_pc' = "idle"
    /\ UNCHANGED <<obj, is_debug, camera_names, attrs, received, ret, snapshot>>

\* follower_state_cb is called with the next message and executes line 143.
StateCbSetQpos ==
    /\ obj = "Recorder"
    /\ cb_pc = "idle"
    /\ Len(received[RacedStream]) < MaxRaced
    /\ LET data == JointStateMsg(Len(received[RacedStream]) + 1)
       IN  /\ received' = [received EXCEPT ![RacedStream] = Append(@, data)]
           /\ attrs' = setattr(attrs, <<"qpos">>, Val(data.position))
    /\ cb_pc' = "qvel"
    /\ UNCHANGED <<obj, is_debug, camera_names, timestamps, ret, snapshot>>

\* Line 144.
StateCbSetQvel ==
    /\ obj = "Recorder"
    /\ cb_pc = "qvel"
    /\ attrs' = setattr(attrs, <<"qvel">>, Val(CurrentMsg.velocity))
    /\ cb_pc' = "effort"
    /\ UNCHANGED <<obj, is_debug, camera_names, timestamps, received, ret, snapshot>>

\* Line 145.
StateCbSetEffort ==
    /\ obj = "Recorder"
    /\ cb_pc = "effort"
    /\ attrs' = setattr(attrs, <<"effort">>, Val(CurrentMsg.effort))
    /\ cb_pc' = "data"
    /\ UNCHANGED <<obj, is_debug, camera_names, timestamps, received, ret, snapshot>>

\* Line 146.
StateCbSetData ==
    /\ obj = "Recorder"
    /\ cb_pc = "data"
    /\ attrs' = setattr(attrs, <<"data">>, Val(CurrentMsg))
    /\ cb_pc' = "timestamps"
    /\ UNCHANGED <<obj, is_debug, camera_names, timestamps, received, ret, snapshot>>

\* Lines 147-148, and the return.
StateCbRecord ==
    /\ obj = "Recorder"
    /\ cb_pc = "timestamps"
    /\ timestamps' = IF is_debug
                     THEN [timestamps EXCEPT ![<<"joint_timestamps">>] =
                              DequeAppend(@, CurrentMsg.time)]
                     ELSE timestamps
    /\ cb_pc' = "idle"
    /\ UNCHANGED <<obj, is_debug, camera_names, attrs, received, ret, snapshot>>

\* The reader reads one more of the stream's fields; a read that raises ends it.
ReadOneField ==
    /\ \A f \in DOMAIN snapshot : snapshot[f].raised = "none"
    /\ \E name \in RacedFields \ DOMAIN snapshot :
          snapshot' = [f \in DOMAIN snapshot \cup {name} |->
                          IF f = name THEN getattr(attrs, name) ELSE snapshot[f]]
    /\ UNCHANGED <<recVars, cb_pc>>

(***************************************************************************)
(* The specifications.                                                     *)
(***************************************************************************)
vars == <<moveVars, recVars, rateVars, smoothVars, calibVars, concVars>>

\* The playback of move_arms and move_grippers.
Init == MoveInit /\ RecIdle /\ RateIdle /\ SmoothIdle /\ CalibIdle /\ ConcIdle

Next ==
    \/ CallMoveArms /\ UNCHANGED <<concVars, recVars, rateVars, smoothVars, calibVars>>
    \/ CallMoveGrippers /\ UNCHANGED <<concVars, recVars, rateVars, smoothVars, calibVars>>
    \/ TrajIndexError /\ UNCHANGED <<concVars, recVars, rateVars, smoothVars, calibVars>>
    \/ Dispatch /\ UNCHANGED <<concVars, recVars, rateVars, smoothVars, calibVars>>
    \/ DispatchFails /\ UNCHANGED <<concVars, recVars, rateVars, smoothVars, calibVars>>
    \/ Sleep /\ UNCHANGED <<concVars, recVars, rateVars, smoothVars, calibVars>>
    \/ Return /\ UNCHANGED <<concVars, recVars, rateVars, smoothVars, calibVars>>

Spec == Init /\ [][Next]_vars

\* An ImageRecorder or a Recorder, its handlers and its readers.
RecorderInitial == RecInit /\ MoveInit /\ RateIdle /\ SmoothIdle /\ CalibIdle /\ ConcIdle

RecorderNext ==
    \/ image_cb_cam_high /\ UNCHANGED <<concVars, moveVars, rateVars, smoothVars, calibVars>>
    \/ image_cb_cam_low /\ UNCHANGED <<concVars, moveVars, rateVars, smoothVars, calibVars>>
    \/ image_cb_cam_left_wrist /\ UNCHANGED <<concVars, moveVars, rateVars, smoothVars, calibVars>>
    \/ image_cb_cam_right_wrist /\ UNCHANGED <<concVars, moveVars, rateVars, smoothVars, calibVars>>
    \/ get_images /\ UNCHANGED <<concVars, moveVars, rateVars, smoothVars, calibVars>>
    \/ ImagePrintDiagnostics /\ UNCHANGED <<concVars, moveVars, rateVars, smoothVars, calibVars>>
    \/ follower_state_cb /\ UNCHANGED <<concVars, moveVars, rateVars, smoothVars, calibVars>>
    \/ follower_arm_commands_cb /\ UNCHANGED <<concVars, moveVars, rateVars, smoothVars, calibVars>>
    \/ follower_gripper_commands_cb /\ UNCHANGED <<concVars, moveVars, rateVars, smoothVars, calibVars>>
    \/ RecorderPrintDiagnostics /\ UNCHANGED <<concVars, moveVars, rateVars, smoothVars, calibVars>>
    \/ ReadRecorderField /\ UNCHANGED <<concVars, moveVars, rateVars, smoothVars, calibVars>>

RecorderSpec == RecorderInitial /\ [][RecorderNext]_vars

\* dt_helper applied to a sequence of timestamps.
RateInitial == RateInit /\ MoveInit /\ RecIdle /\ SmoothIdle /\ CalibIdle /\ ConcIdle

RateNext == EstimateRate /\ UNCHANGED <<concVars, moveVars, recVars, smoothVars, calibVars>>

RateSpec == RateInitial /\ [][RateNext]_vars

\* smooth_base_action applied to an array of base actions.
SmoothInitial == SmoothInit /\ MoveInit /\ RecIdle /\ RateIdle /\ CalibIdle /\ ConcIdle

SmoothNext == smooth_base_action /\ UNCHANGED <<concVars, moveVars, recVars, rateVars, calibVars>>

SmoothSpec == SmoothInitial /\ [][SmoothNext]_vars

\* calibrate_linear_vel applied to a base action.
CalibInitial == CalibInit /\ MoveInit /\ RecIdle /\ RateIdle /\ SmoothIdle /\ ConcIdle

CalibNext == CallCalibrate /\ UNCHANGED <<concVars, moveVars, recVars, rateVars, smoothVars>>

CalibSpec == CalibInitial /\ [][CalibNext]_vars

\* A handler of an ImageRecorder or a Recorder and a reader of the fields it writes.
ConcInitial == RecInit /\ ConcIdle /\ MoveInit /\ RateIdle /\ SmoothIdle /\ CalibIdle

ConcNext ==
    \/ ImageCbSetImage /\ UNCHANGED <<moveVars, rateVars, smoothVars, calibVars>>
    \/ ImageCbSetSecs /\ UNCHANGED <<moveVars, rateVars, smoothVars, calibVars>>
    \/ ImageCbSetNsecs /\ UNCHANGED <<moveVars, rateVars, smoothVars, calibVars>>
    \/ ImageCbRecord /\ UNCHANGED <<moveVars, rateVars, smoothVars, calibVars>>
    \/ StateCbSetQpos /\ UNCHANGED <<moveVars, rateVars, smoothVars, calibVars>>
    \/ StateCbSetQvel /\ UNCHANGED <<moveVars, rateVars, smoothVars, calibVars>>
    \/ StateCbSetEffort /\ UNCHANGED <<moveVars, rateVars, smoothVars, calibVars>>
    \/ StateCbSetData /\ UNCHANGED <<moveVars, rateVars, smoothVars, calibVars>>
    \/ StateCbRecord /\ UNCHANGED <<moveVars, rateVars, smoothVars, calibVars>>
    \/ ReadOneField /\ UNCHANGED <<moveVars, rateVars, smoothVars, calibVars>>

ConcSpec == ConcInitial /\ [][ConcNext]_vars

(***************************************************************************)
(* Claims about the playback (specification Spec).                         *)
(***************************************************************************)
EqualLists == Len(bot_list) = Len(target_pose_list)

\* The position of bot i (from 0) read at the start of the call, its target, and
\* the trajectory np.linspace gives between them.
CurrentPose(i) ==
    IF fn = "move_arms" THEN get_arm_joint_positions(bot_list[i + 1])
    ELSE get_arm_gripper_positions(bot_list[i + 1])

OwnTrajectory(i) ==
    IF fn = "move_arms"
    THEN LinspaceVec(CurrentPose(i), target_pose_list[i + 1], num_steps)
    ELSE Linspace(CurrentPose(i), target_pose_list[i + 1], num_steps)

AsWaypoint(pose) ==
    IF fn = "move_arms" THEN [j \in 1..Len(pose) |-> IntRat(pose[j])] ELSE IntRat(pose)

\* The k-th command of a playback over n actuators goes to actuator (k-1) % n at
\* step (k-1) \div n: all of step s before any of step s + 1, actuators in order.
InStepOrder(k) ==
    LET n == Len(bot_list)
    IN  /\ dispatched[k].bot = (k - 1) % n
        /\ dispatched[k].t = (k - 1) \div n

\* C1: with lists of equal length and no failing dispatch, the commands received
\* so far are, in order, step 0 for every actuator, then step 1 for every
\* actuator, and so on; each carries waypoint t of its own actuator's trajectory;
\* the call does not raise, and when it returns every actuator has received exactly
\* num_steps commands.
C1_StepSynchronousPlayback ==
    (pc # "idle" /\ EqualLists /\ failed = {}) =>
        /\ \A k \in 1..Len(dispatched) :
              /\ InStepOrder(k)
              /\ dispatched[k].cmd = OwnTrajectory(dispatched[k].bot)[dispatched[k].t + 1]
        /\ pc # "raised"
        /\ pc = "returned" => Len(dispatched) = num_steps * Len(bot_list)

C1_Witness ==
    /\ pc = "returned"
    /\ EqualLists
    /\ failed = {}
    /\ Len(bot_list) = 2
    /\ num_steps = 3
    /\ Len(dispatched) = 6
    /\ traj_list[1] # traj_list[2]

\* C2: for num_steps >= 2 every trajectory built starts at the position read at
\* the start of the call and ends at the target exactly.
C2_TrajectoryEndpoints ==
    (pc # "idle" /\ num_steps >= 2) =>
        \A i \in 1..Len(traj_list) :
            /\ traj_list[i][1] = AsWaypoint(CurrentPose(i - 1))
            /\ traj_list[i][num_steps] = AsWaypoint(target_pose_list[i])

C2_Witness ==
    /\ pc = "returned"
    /\ fn = "move_arms"
    /\ num_steps = 3
    /\ Len(traj_list) = 2
    /\ traj_list[1][1] # traj_list[1][3]
    /\ traj_list[1][2] \notin {traj_list[1][1], traj_list[1][3]}

\* C3: when bot_list and target_pose_list differ in length the call raises before
\* any command is dispatched: no command is ever received and the call does not
\* return normally.
C3_MismatchFailsFast ==
    (pc # "idle" /\ ~EqualLists) => (dispatched = <<>> /\ pc # "returned")

\* C4: once a dispatch has failed the call has raised that failure, the loops
\* stand where they stood, and the actuators have received exactly the commands
\* issued before it: none for the failed (bot, step) and none after it.
C4_DispatchFailureAborts ==
    \A f \in failed :
        /\ pc = "raised"
        /\ error = "DispatchFailure"
        /\ t = f.t
        /\ bot_id = f.bot
        /\ Len(dispatched) = f.t * Len(bot_list) + f.bot
        /\ \A k \in 1..Len(dispatched) : InStepOrder(k)

C4_Witness ==
    /\ failed = {[bot |-> 1, t |-> 1]}
    /\ pc = "raised"
    /\ EqualLists
    /\ Len(bot_list) = 2
    /\ num_steps = 3
    /\ Len(dispatched) = 3

(***************************************************************************)
(* Claims about the recorders (specification RecorderSpec).                *)
(***************************************************************************)
Last(xs) == xs[Len(xs)]

\* The deque of a stream, and the timestamp its handler records for a message.
DequeOf(s) ==
    IF obj = "ImageRecorder" THEN <<s, "timestamps">>
    ELSE IF s = "joint_states" THEN <<"joint_timestamps">>
    ELSE IF s = "joint_group" THEN <<"arm_command_timestamps">>
    ELSE <<"gripper_command_timestamps">>

RecordedTime(msg) == IF obj = "ImageRecorder" THEN ImageTimestamp(msg) ELSE msg.time

\* C5: get_images does not raise and returns one entry per configured camera:
\* the image of the latest message received for that camera, or None when the
\* camera has received no message yet.
C5_GetImagesLatestOrNone ==
    ret.call = "get_images" =>
        /\ ret.raised = "none"
        /\ DOMAIN ret.value = Range(camera_names)
        /\ \A cam \in Range(camera_names) :
              ret.value[cam] = IF received[cam] = <<>> THEN None
                               ELSE Val(imgmsg_to_cv2(Last(received[cam])))

C5_Witness ==
    /\ ret.call = "get_images"
    /\ Len(camera_names) = 4
    /\ Len(received["cam_low"]) >= 2
    /\ Len(received["cam_high"]) = 1
    /\ received["cam_left_wrist"] = <<>>
    /\ ret.value["cam_low"] # ret.value["cam_high"]
    /\ ret.value["cam_left_wrist"] = None

C7_InsufficientSamplesExplicit ==
    (ret.call = "print_diagnostics" /\ is_debug) =>
        /\ ret.raised = "none"
        /\ \A i \in DOMAIN ret.printed :
              LET name == IF obj = "ImageRecorder" THEN <<ret.printed[i].name, "timestamps">>
                          ELSE <<ret.printed[i].name>>
              IN  Len(timestamps[name]) < 2 => ret.printed[i].freq \notin {NaN, Inf}

(***************************************************************************)
(* Claims about the pure functions (SmoothSpec, RateSpec, CalibSpec).      *)
(***************************************************************************)
\* The 5-wide unweighted moving average of column c around row r: the sum of the
\* rows r-2..r+2 that exist, over 5.
MovingAverage(array, r, c) ==
    LET half == KernelWidth \div 2
        rows == {j \in 1..Len(array) : j >= r - half /\ j <= r + half}
    IN  Rat(Sum([j \in 1..Len(array) |-> IF j \in rows THEN array[j][c] ELSE 0]), KernelWidth)

\* C8: for an input of L >= 1 rows smooth_base_action returns exactly L rows, each
\* column the 5-wide unweighted moving average of the same input column.
C8_SmoothKeepsLength ==
    (smooth_pc # "ready" /\ Len(base_action) >= 1) =>
        /\ smooth_pc = "returned"
        /\ Len(smoothed) = Len(base_action)
        /\ \A r \in 1..Len(smoothed) : \A c \in 1..NumComponents :
              smoothed[r][c] = MovingAverage(base_action, r, c)

ConstantSpacing(ts, d) == \A i \in 1..(Len(ts) - 1) : ts[i + 1] - ts[i] = d

\* C9: for timestamps of length >= 2 with constant spacing d > 0, dt_helper
\* returns d (the mean of the consecutive differences) and the frequency is 1/d.
C9_ConstantSpacingRate ==
    (rate_out # <<>> /\ Len(rate_ts) >= 2) =>
        LET d == rate_ts[2] - rate_ts[1]
        IN  (d > 0 /\ ConstantSpacing(rate_ts, d)) =>
                /\ rate_out[1].mean = IntRat(d)
                /\ rate_out[1].freq = Rat(1, d)

C9_Witness ==
    /\ rate_out # <<>>
    /\ rate_ts = <<0, 2, 4>>
    /\ rate_out[1].freq = [n |-> 1, d |-> 2]

\* C10: calibrate_linear_vel returns a new vector (linear_vel - c * angular_vel,
\* angular_vel) and leaves the caller's vector as it was; with c omitted or 0
\* the result equals the input.
C10_CalibrateReturnsNewVector ==
    cal_ret # 0 =>
        LET c0 == IF cal_c = None THEN 0 ELSE cal_c[1]
        IN  /\ cal_ret # cal_arg
            /\ heap[cal_ret] = <<cal_given[1] - c0 * cal_given[2], cal_given[2]>>
            /\ heap[cal_arg] = cal_given
            /\ c0 = 0 => heap[cal_ret] = cal_given

C10_Witness ==
    /\ cal_ret # 0
    /\ cal_c = Val(2)
    /\ cal_given = <<1, -1>>
    /\ heap[cal_ret] = <<3, -1>>
    /\ heap[cal_arg] = <<1, -1>>


(***************************************************************************)
(* Claims about the values the handlers record (specification              *)
(* RecorderSpec).                                                          *)
(***************************************************************************)
\* The header stamp of an image message, in nanoseconds.
HeaderStamp(msg) == msg.secs * NsPerSec + msg.nsecs

\* C11: with the history enabled, the timestamp image_cb appends for a message is
\* the message's header stamp, seconds plus nanoseconds * 1e-9, so that two
\* messages of the same second with different nanoseconds give different entries.
C11_TimestampIsHeaderStamp ==
    (obj = "ImageRecorder" /\ is_debug) =>
        \A cam \in Range(camera_names) :
            LET q == timestamps[<<cam, "timestamps">>]
                msgs == received[cam]
            IN  /\ msgs # <<>> => Last(q) = HeaderStamp(Last(msgs))
                /\ \A i \in 1..(Len(q) - 1) :
                      LET a == msgs[Len(msgs) - Len(q) + i]
                          b == msgs[Len(msgs) - Len(q) + i + 1]
                      IN  (a.secs = b.secs /\ a.nsecs # b.nsecs) => q[i] # q[i + 1]


\* No handler of the Recorder has run yet.
NoCallbackYet == \A s \in RecorderStreams : received[s] = <<>>

\* C12: on a Recorder none of whose callbacks has fired, reading any of qpos,
\* qvel, effort, data, arm_command and gripper_command gives None and raises no
\* missing-attribute fault.
C12_FieldsAreNoneBeforeFirstMessage ==
    (obj = "Recorder" /\ ret.call = "getattr" /\ NoCallbackYet) =>
        /\ ret.raised = "none"
        /\ ret.value = None


\* C17: print_diagnostics on an ImageRecorder or a Recorder made with is_debug
\* False looks only at streams whose history is enabled, so after any sequence
\* of callbacks it completes without raising and reports no rate.
C17_DiagnosticsWithoutHistory ==
    (ret.call = "print_diagnostics" /\ ~is_debug) =>
        /\ ret.raised = "none"
        /\ ret.printed = <<>>


(***************************************************************************)
(* Claims about short playbacks (specification Spec).                      *)
(***************************************************************************)
\* The commands bot i (from 0) has received, in order.
CommandsTo(i) == SelectSeq(dispatched, LAMBDA c : c.bot = i)

\* C15: whenever move_arms or move_grippers returns normally, for lists of equal
\* length and move_time > 0, the last command each actuator received is its
\* target, also when int(move_time / DT) is 1 or 0.
C15_LastCommandIsTarget ==
    (pc = "returned" /\ EqualLists /\ move_time > 0) =>
        \A i \in 0..(Len(bot_list) - 1) :
            /\ CommandsTo(i) # <<>>
            /\ Last(CommandsTo(i)).cmd = AsWaypoint(target_pose_list[i + 1])

\* C16: with move_time < DT, so that int(move_time / DT) is 0, the playback is
\* empty: no command is dispatched, no pacing sleep is made, and the call
\* returns normally without raising.
C16_EmptyPlayback ==
    (pc # "idle" /\ move_time < DT) =>
        /\ num_steps = 0
        /\ dispatched = <<>>
        /\ slept = 0
        /\ failed = {}
        /\ error = "none"
        /\ pc \in {"step", "returned"}
        /\ pc = "step" => (t = 0 /\ bot_id = 0)

C16_Witness ==
    /\ pc = "returned"
    /\ fn = "move_grippers"
    /\ move_time = 1
    /\ Len(bot_list) = 2
    /\ Len(target_pose_list) = 2
    /\ dispatched = <<>>
    /\ slept = 0


(***************************************************************************)
(* Claims about what an operation leaves alone (specification              *)
(* RecorderSpec).                                                          *)
(***************************************************************************)
\* The attributes that hold the latest value and stamp of stream s.
StreamAttrs(s) ==
    IF obj = "ImageRecorder" THEN {<<s, "image">>, <<s, "secs">>, <<s, "nsecs">>}
    ELSE IF s = "joint_states" THEN {<<"qpos">>, <<"qvel">>, <<"effort">>, <<"data">>}
    ELSE IF s = "joint_group" THEN {<<"arm_command">>}
    ELSE {<<"gripper_command">>}

\* The latest value, the stamp and the history of stream s.
StreamState(s) ==
    [latest |-> [a \in StreamAttrs(s) \cap DOMAIN attrs |-> attrs[a]],
     history |-> IF hasattr(timestamps, DequeOf(s)) THEN Val(timestamps[DequeOf(s)])
                 ELSE None]

\* C14: the latest value, its timestamp and the history of a stream are changed
\* only by that stream's own handler: a callback for one stream leaves every
\* other stream as it was, and get_images and print_diagnostics change no
\* stream's state.
C14_OnlyOwnHandlerWrites ==
    [][/\ \A s \in DOMAIN received :
             received'[s] = received[s] => StreamState(s)' = StreamState(s)
       /\ received' = received => (attrs' = attrs /\ timestamps' = timestamps)
       /\ ret'.call \in {"get_images", "print_diagnostics"} =>
             (received' = received /\ attrs' = attrs /\ timestamps' = timestamps)]_vars

C14_Witness ==
    /\ obj = "ImageRecorder"
    /\ is_debug
    /\ "cam_low" \in Range(camera_names)
    /\ Len(received["cam_high"]) = 2
    /\ Len(received["cam_low"]) = 1
    /\ attrs[<<"cam_low", "image">>] = Val(imgmsg_to_cv2(ImageMsg("cam_low", 1)))
    /\ attrs[<<"cam_left_wrist", "image">>] = None
    /\ Len(timestamps[<<"cam_low", "timestamps">>]) = 1
    /\ ret.call = "print_diagnostics"


(***************************************************************************)
(* Claims about a reader that runs beside a handler (specification         *)
(* ConcSpec).                                                              *)
(***************************************************************************)
\* What a reader gets when every field it reads comes from msg.
FieldsOf(msg) ==
    IF obj = "ImageRecorder"
    THEN (<<RacedStream, "image">> :> [raised |-> "none", value |-> Val(imgmsg_to_cv2(msg))])
         @@ (<<RacedStream, "secs">> :> [raised |-> "none", value |-> Val(msg.secs)])
         @@ (<<RacedStream, "nsecs">> :> [raised |-> "none", value |-> Val(msg.nsecs)])
    ELSE (<<"qpos">> :> [raised |-> "none", value |-> Val(msg.position)])
         @@ (<<"qvel">> :> [raised |-> "none", value |-> Val(msg.velocity)])
         @@ (<<"effort">> :> [raised |-> "none", value |-> Val(msg.effort)])

\* The reader has read all the fields and each of them held a message's value.
ReadComplete ==
    /\ DOMAIN snapshot = RacedFields
    /\ \A f \in RacedFields : snapshot[f].raised = "none" /\ snapshot[f].value # None

\* C13: a reader that runs concurrently with a stream's handler never observes
\* fields from two different messages: the image, secs and nsecs of a camera, or
\* the qpos, qvel and effort of the joint states, that it reads all belong to one
\* message.
C13_NoTornRead ==
    ReadComplete =>
        \E k \in 1..Len(received[RacedStream]) : snapshot = FieldsOf(received[RacedStream][k])

=============================================================================
